---- MODULE Spec2Model ----
(***************************************************************************)
(* Order-list batch runner of tests/pages/loginPage.js (the OrderListPage  *)
(* revision of lines 207-1215): clickEachRowAddressPopup iterating the     *)
(* rows of the order table, handleAddressPopup, syncShiprocketForOrder     *)
(* driving a secondary tab, and the pincode lookup cache _excelCache.      *)
(* The browser is the environment: the outcome of every wait, click and    *)
(* read is drawn with \E in the action that performs it.                   *)
(***************************************************************************)
EXTENDS Integers, Sequences, FiniteSets, TLC

\* ---- bounds of the model ------------------------------------------------
MaxRows == 2
MaxTicks == 1
MaxSegments == 3
MaxCalls == 2
MaxDialogs == 2

\* ---- values -------------------------------------------------------------
NULL == "null"
NullSet == {NULL}

Pincodes == {"686001", "682021"}

\* the order id rendered on row r, and the first pincode of its address popup
RowOrderId(r) == CASE r = 1 -> "101" [] r = 2 -> "102" [] OTHER -> "103"

RowPincode(r) == IF r = 2 THEN "682021" ELSE "686001"

OverrideValues == {"", "DTDC", "delhivery", "bluedart"}

ProcessCountValues == {"", "1"}

\* the values of PROCESS_COUNT of the runs that vary the configuration
CapProcessCountValues == {"", "abc", "0", "-1", "1", "2", "1abc"}

\* the values of the inclusion set and of the exclusion set of those runs
InclusionSets == {{}, {"102"}}

ExclusionSets == {{""}, {"", "101"}}

\* what readPincodesFromExcel meets when it opens a file
FileStates == {"ok", "missing", "unreadable", "noSheet"}

OptionTexts == {"DTDC", "Delhivery", "Bluedart"}

reloadInterval == 60 * 1000

TickMs == reloadInterval

StartTime == reloadInterval

\* the times between two calls of loadExcelCaches, and the last time of a call,
\* of the runs that only call the cache
Elapses == {0, reloadInterval - 1, reloadInterval, reloadInterval + 1}

Horizon == StartTime + (MaxTicks + 1) * TickMs + 1

NoResult == [synced |-> FALSE, reason |-> "none", carrier |-> NULL]

EmptyProcessed == [DTDC |-> <<>>, Delhivery |-> <<>>, Unknown |-> <<>>]

VARIABLES
  pc,                \* position of clickEachRowAddressPopup
  i,                 \* 1-based number of the row of the loop
  nRows,             \* rows.length
  maxToProcess,      \* 0 stands for null
  processedRowCount,
  processed,         \* the three sequences of {orderId, pincode}
  orderId,           \* order id derived for the current row ("" when none)
  pincode,           \* handleResult.pincode of the current row
  syncPc,            \* position of syncShiprocketForOrder
  tabOpen,           \* number of secondary tabs that are open
  closeAttempted,    \* newPage.close() was called in the current call
  result,            \* value returned by the current call
  selected,
  selectedCarrier,
  nameAttempts,      \* texts passed to trySelectByText in the current call
  performed,         \* clicks performed in the current call
  attempts,          \* steps of the extended flow the current call began
  scanned,           \* the text of #logisticsModal was read for a pincode
  optionClicked,     \* option whose click succeeded in the selection block
  excelCache,        \* _excelCache
  now,               \* last value of Date.now()
  fileDTDC,          \* first column of data/DTDC.xlsx
  fileDelhivery,     \* first column of data/Delhivery.xlsx
  fileState,         \* what opening each of the two files meets
  xlsx,              \* require("xlsx") succeeded
  rawText,           \* the text handed to extractPincode, as tokens
  extractions,       \* what the calls of extractPincode returned
  popPc,             \* position of handleAddressPopup
  popupText,         \* innerText of #addressShowBody, as tokens
  handleResult,      \* value returned by handleAddressPopup
  popupLog,          \* what the handler met and did, in order
  dlgPc,             \* step of the extended flow whose click is next
  handlers,          \* one-shot "dialog" listeners registered on newPage
  dialogLog,         \* what became of each dialog the page raised
  CARRIER_OVERRIDE,  \* process.env.CARRIER_OVERRIDE
  PROCESS_COUNT,     \* process.env.PROCESS_COUNT ("" when absent)
  ORDERS_TO_PROCESS, \* the inclusion set of loginPage.js
  SKIPPED_ORDERS,    \* the exclusion set of orderListPage.js
  evaluated,         \* rows whose iteration was entered
  clicked,           \* rows whose address trigger was clicked
  lastException,     \* last row in whose processing an exception was raised
  pageClosed,        \* the page of the order list is gone
  fileReads,         \* number of calls of readPincodesFromExcel
  summaryPrinted,
  summaryFile,       \* lines of logs/summary-<ts>.txt, <<>> while not written
  pollPc,            \* position in the wait for the invoice number
  elapsed,           \* Date.now() - start of that wait, in ms
  polls,             \* evaluations of #gst_invoice_nb made by that wait
  populated          \* the wait has read a non-empty invoice number

vars == <<pc, i, nRows, maxToProcess, processedRowCount, processed, orderId,
          pincode, syncPc, tabOpen, closeAttempted, result, selected,
          selectedCarrier, nameAttempts, performed, attempts, scanned,
          optionClicked, excelCache, now, fileDTDC,
          fileDelhivery, fileState, xlsx, rawText, extractions, popPc,
          popupText, handleResult, popupLog, dlgPc, handlers, dialogLog,
          CARRIER_OVERRIDE, PROCESS_COUNT,
          ORDERS_TO_PROCESS, SKIPPED_ORDERS, evaluated, clicked, lastException, pageClosed,
          fileReads, summaryPrinted, summaryFile, pollPc, elapsed, polls, populated>>

summaryVars == <<summaryPrinted, summaryFile>>

batchVars == <<pc, i, nRows, maxToProcess, processedRowCount, processed,
               orderId, pincode, evaluated, clicked, lastException,
               pageClosed, summaryVars>>

callVars == <<closeAttempted, result, selected, selectedCarrier, nameAttempts,
              performed, attempts, scanned, optionClicked>>

selectionVars == <<scanned, optionClicked>>

fileVars == <<fileDTDC, fileDelhivery, fileState, xlsx>>

textVars == <<rawText, extractions>>

popupVars == <<popPc, popupText, handleResult, popupLog>>

dialogVars == <<dlgPc, handlers, dialogLog>>

pollVars == <<pollPc, elapsed, polls, populated>>

envVars == <<fileVars, textVars, popupVars, dialogVars, pollVars, CARRIER_OVERRIDE,
             PROCESS_COUNT, ORDERS_TO_PROCESS,
             SKIPPED_ORDERS>>

cacheVars == <<excelCache, now, fileReads>>

\* ---- pure helpers -------------------------------------------------------

\* String.prototype.trim().toLowerCase() on the values of CARRIER_OVERRIDE
TrimLower(s) ==
  CASE s = "DTDC" -> "dtdc"
    [] s = "Delhivery" -> "delhivery"
    [] OTHER -> s

\* parseInt(process.env.PROCESS_COUNT, 10); NaN is represented by a number no
\* decimal string of ProcessCountValues parses to
NaN == 0 - 1000000

\* the longest numeric prefix is parsed: parseInt("1abc", 10) is 1
ParseInt(s) ==
  CASE s = "0" -> 0
    [] s = "-1" -> 0 - 1
    [] s = "1" -> 1
    [] s = "2" -> 2
    [] s = "1abc" -> 1
    [] OTHER -> NaN

MaxToProcess(env) ==
  LET envCount == ParseInt(env)
  IN IF envCount # NaN /\ envCount > 0 THEN envCount ELSE 0

\* Number(orderId)
NumberOf(s) ==
  CASE s = "" -> 0
    [] s = "0" -> 0
    [] s = "1599" -> 1599
    [] s = "101" -> 101
    [] s = "102" -> 102
    [] s = "103" -> 103
    [] OTHER -> NaN

\* ---- extractPincode -----------------------------------------------------
\* A text is a sequence of tokens: the word "Pincode" in any case (k = "L"),
\* a colon, a hyphen, a white-space character (k = "s"), another punctuation
\* character (k = "p"), a word of letters (k = "w") and a maximal run of
\* digits (k = "D", d its digits); n is the number of characters.
Label == [k |-> "L", d |-> <<>>, n |-> 7]

\* one character: ":", "-", white space ("s") or other punctuation ("p")
Char(kind) == [k |-> kind, d |-> <<>>, n |-> 1]

Word(len) == [k |-> "w", d |-> <<>>, n |-> len]

Digits(ds) == [k |-> "D", d |-> ds, n |-> Len(ds)]

\* the pieces the texts are written from
Segments ==
  { <<Label, Char(":"), Char("s"), Digits(<<6, 8, 9, 6, 7, 2>>)>>,
    <<Label, Char("s"), Digits(<<1, 2, 3, 4>>)>>,
    <<Label, Char(":"), Digits(<<1, 2>>)>>,
    <<Label, Char("-"), Digits(<<6, 8, 9, 6, 7, 2, 1>>)>>,
    <<Digits(<<6, 8, 2, 0, 2, 1>>)>>,
    <<Digits(<<1, 2, 3, 4>>)>>,
    <<Char("s")>>,
    <<Char("p")>>,
    <<Word(4)>> }

\* adjacent runs of digits are one run
RECURSIVE Normalize(_)
Normalize(t) ==
  IF Len(t) < 2 THEN t
  ELSE IF t[1].k = "D" /\ t[2].k = "D"
       THEN Normalize(<<Digits(t[1].d \o t[2].d)>> \o SubSeq(t, 3, Len(t)))
       ELSE <<t[1]>> \o Normalize(Tail(t))

RECURSIVE Concat(_)
Concat(segs) == IF segs = <<>> THEN <<>> ELSE Head(segs) \o Concat(Tail(segs))

Texts ==
  {Normalize(Concat(segs)) :
     segs \in UNION {[1..m -> Segments] : m \in 0..MaxSegments}}

\* `\s*`: the first position from j on that holds no white space
RECURSIVE SkipSpaces(_, _)
SkipSpaces(t, j) ==
  IF j <= Len(t) /\ t[j].k = "s" THEN SkipSpaces(t, j + 1) ELSE j

\* `[:\-]?`
HyphenOnly == {"-"}

Separators == {":", "-"}

SkipSeparator(t, j) ==
  IF j <= Len(t) /\ t[j].k \in Separators THEN j + 1 ELSE j

Min(a, b) == IF a < b THEN a ELSE b

\* the digits /Pincode\s*[:\-]?\s*(\d{4,6})/ captures at the label at
\* position p; <<>> when the label starts no match
LabelledAt(t, p) ==
  LET c == SkipSpaces(t, SkipSeparator(t, SkipSpaces(t, p + 1)))
  IN IF t[p].k = "L" /\ c <= Len(t) /\ t[c].k = "D" /\ Len(t[c].d) >= 4
     THEN SubSeq(t[c].d, 1, Min(6, Len(t[c].d)))
     ELSE <<>>

\* letters and digits are word characters for `\b`
WordKinds == {"L", "w", "D"}

\* the digits /\b\d{4,6}\b/ matches at position p; <<>> when it matches none
StandaloneAt(t, p) ==
  IF /\ t[p].k = "D"
     /\ Len(t[p].d) >= 4
     /\ Len(t[p].d) <= 6
     /\ p > 1 => t[p - 1].k \notin WordKinds
     /\ p < Len(t) => t[p + 1].k \notin WordKinds
  THEN t[p].d
  ELSE <<>>

\* the matches of the labelled pattern from position p on, in text order
RECURSIVE Labelled(_, _)
Labelled(t, p) ==
  IF p > Len(t) THEN <<>>
  ELSE (IF LabelledAt(t, p) = <<>> THEN <<>> ELSE <<LabelledAt(t, p)>>)
         \o Labelled(t, p + 1)

RECURSIVE Unlabelled(_, _)
Unlabelled(t, p) ==
  IF p > Len(t) THEN <<>>
  ELSE (IF StandaloneAt(t, p) = <<>> THEN <<>> ELSE <<StandaloneAt(t, p)>>)
         \o Unlabelled(t, p + 1)

\* `if (!candidates.length)`
FallbackAlways(candidates) == TRUE

Fallback(candidates) == candidates = <<>>

Member(seq, e) == \E k \in 1..Len(seq) : seq[k] = e

KeepAll(seq) == seq

\* `[...new Set(candidates)]`: the first occurrence of each element, in order
RECURSIVE Dedupe(_)
Dedupe(seq) ==
  IF seq = <<>> THEN <<>>
  ELSE LET front == Dedupe(SubSeq(seq, 1, Len(seq) - 1))
           last == seq[Len(seq)]
       IN IF Member(front, last) THEN front ELSE Append(front, last)

extractPincode(t) ==
  IF t = <<>> THEN <<>>
  ELSE LET labelled == Labelled(t, 1)
       IN Dedupe(labelled \o (IF Fallback(labelled)
                              THEN Unlabelled(t, 1)
                              ELSE <<>>))

\* the first column of the sheet of a file that opens
FirstColumn(name) == IF name = "DTDC" THEN fileDTDC ELSE fileDelhivery

\* a reader whose failures leave the set unset
readPincodesFromExcelOrNull(name) ==
  IF ~xlsx \/ fileState[name] # "ok" THEN NullSet ELSE FirstColumn(name)

\* every way out other than the rows of the first sheet is `new Set()`
readPincodesFromExcel(name) ==
  IF ~xlsx THEN {}
  ELSE IF fileState[name] = "missing" THEN {}
  ELSE IF fileState[name] = "unreadable" THEN {}
  ELSE IF fileState[name] = "noSheet" THEN {}
  ELSE FirstColumn(name)

\* the clock never runs backwards; it is read only by loadExcelCaches
Clock == {t \in {now + k * TickMs : k \in 0..MaxTicks} :
            t <= StartTime + MaxTicks * TickMs}

\* the condition under which loadExcelCaches returns the cached sets
CacheNeverFresh(c, t) == FALSE

CacheFresh(c, t) ==
  /\ c.lastLoaded # 0
  /\ t - c.lastLoaded < reloadInterval
  /\ c.DTDC # NullSet
  /\ c.Delhivery # NullSet

\* a reload that keeps a Delhivery set it already holds
loadExcelCachesDtdcOnly(c, t) ==
  IF CacheFresh(c, t)
  THEN c
  ELSE [DTDC |-> readPincodesFromExcel("DTDC"),
        Delhivery |-> IF c.Delhivery = NullSet
                      THEN readPincodesFromExcel("Delhivery")
                      ELSE c.Delhivery,
        lastLoaded |-> t]

loadExcelCaches(c, t) ==
  IF CacheFresh(c, t)
  THEN c
  ELSE [DTDC |-> readPincodesFromExcel("DTDC"),
        Delhivery |-> readPincodesFromExcel("Delhivery"),
        lastLoaded |-> t]

\* the calls of readPincodesFromExcel a call of loadExcelCaches makes
ReadsOf(c, t) == IF CacheFresh(c, t) THEN 0 ELSE 2

\* `_excelCache.X || new Set()`
OrEmpty(s) == IF s = NullSet THEN {} ELSE s

\* carrier inferred from the text of the clicked last option (/DTDC/i, /Delhivery/i)
InferCarrier(txt) ==
  IF txt = "DTDC" THEN "DTDC"
  ELSE IF txt = "Delhivery" THEN "Delhivery"
  ELSE NULL

\* the module is loaded and the page object constructed: nothing has run
Start ==
  /\ pc = "start"
  /\ i = 1
  /\ nRows = 0
  /\ maxToProcess = 0
  /\ processedRowCount = 0
  /\ processed = EmptyProcessed
  /\ orderId = ""
  /\ pincode = NULL
  /\ syncPc = "idle"
  /\ tabOpen = 0
  /\ closeAttempted = FALSE
  /\ result = NoResult
  /\ selected = FALSE
  /\ selectedCarrier = NULL
  /\ nameAttempts = {}
  /\ performed = {}
  /\ attempts = <<>>
  /\ scanned = FALSE
  /\ optionClicked = NULL
  /\ excelCache = [DTDC |-> NullSet, Delhivery |-> NullSet, lastLoaded |-> 0]
  /\ now = StartTime
  /\ evaluated = {}
  /\ clicked = {}
  /\ lastException = 0
  /\ pageClosed = FALSE
  /\ fileReads = 0
  /\ summaryPrinted = FALSE
  /\ summaryFile = <<>>

\* handleAddressPopup before it read anything
NoHandleResult ==
  [foundAddress |-> FALSE, pincode |-> <<>>, pincodes |-> <<>>,
   rawText |-> <<>>, textRead |-> FALSE]

\* no popup is being handled
NoPopup ==
  /\ popPc = "idle"
  /\ popupText = <<>>
  /\ handleResult = NoHandleResult
  /\ popupLog = <<>>

\* no click of the extended flow is being followed
NoDialogs ==
  /\ dlgPc = "idle"
  /\ handlers = 0
  /\ dialogLog = <<>>

\* the invoice number is not being waited for
NoPoll ==
  /\ pollPc = "idle"
  /\ elapsed = 0
  /\ polls = 0
  /\ populated = FALSE

\* no text is being parsed
NoText ==
  /\ rawText = <<>>
  /\ extractions = <<>>
  /\ NoPopup
  /\ NoDialogs
  /\ NoPoll

\* both files open and the library is installed
FilesOk ==
  /\ fileState = [DTDC |-> "ok", Delhivery |-> "ok"]
  /\ xlsx = TRUE

\* the sets as the two revisions declare them: no order is selected or skipped
Init ==
  /\ Start
  /\ FilesOk
  /\ NoText
  /\ fileDTDC \in SUBSET Pincodes
  /\ fileDelhivery \in SUBSET Pincodes
  /\ CARRIER_OVERRIDE \in OverrideValues
  /\ PROCESS_COUNT \in ProcessCountValues
  /\ ORDERS_TO_PROCESS = {}
  /\ SKIPPED_ORDERS = {""}

\* runs that vary the cap and the two sets, over fixed lookup files
InitConfig ==
  /\ Start
  /\ FilesOk
  /\ NoText
  /\ fileDTDC = {"686001"}
  /\ fileDelhivery = {"682021"}
  /\ CARRIER_OVERRIDE = ""
  /\ PROCESS_COUNT \in CapProcessCountValues
  /\ ORDERS_TO_PROCESS \in InclusionSets
  /\ SKIPPED_ORDERS \in ExclusionSets

\* runs that only call loadExcelCaches
InitCache ==
  /\ Start
  /\ NoText
  /\ fileState \in [{"DTDC", "Delhivery"} -> FileStates]
  /\ xlsx \in BOOLEAN
  /\ fileDTDC \in SUBSET Pincodes
  /\ fileDelhivery \in SUBSET Pincodes
  /\ CARRIER_OVERRIDE = ""
  /\ PROCESS_COUNT = ""
  /\ ORDERS_TO_PROCESS = {}
  /\ SKIPPED_ORDERS = {""}

\* ---- clickEachRowAddressPopup -------------------------------------------

\* the handler of the row-level try (lines 1132-1137) resumes the loop
RowCatchPropagates == "thrown"

RowCatchPc == "loop"

\* an exception reaching the row-level catch while row i is processed
RowCatch ==
  /\ pc' = RowCatchPc
  /\ i' = i + 1
  /\ lastException' = i

\* `continue`
Continue ==
  /\ pc' = "loop"
  /\ i' = i + 1

CapReached(count) == maxToProcess # 0 /\ count >= maxToProcess

\* await this.waitForTable(); rows = $$(...); PROCESS_COUNT is parsed
WaitForTable ==
  /\ pc = "start"
  /\ \E visible \in BOOLEAN, n \in 1..MaxRows :
       IF visible
       THEN /\ nRows' = n
            /\ maxToProcess' = MaxToProcess(PROCESS_COUNT)
            /\ pc' = "loop"
       ELSE /\ pc' = "thrown"
            /\ UNCHANGED <<nRows, maxToProcess>>
  /\ UNCHANGED <<i, processedRowCount, processed, orderId, pincode, evaluated,
                 clicked, lastException, pageClosed, summaryVars, syncPc,
                 tabOpen>>
  /\ UNCHANGED <<callVars, cacheVars, envVars>>

\* loop condition and the PROCESS_COUNT check at the head of the body
LoopHead ==
  /\ pc = "loop"
  /\ IF i > nRows \/ CapReached(processedRowCount)
     THEN /\ pc' = "summary"
          /\ UNCHANGED evaluated
     ELSE /\ pc' = "row"
          /\ evaluated' = evaluated \cup {i}
  /\ UNCHANGED <<i, nRows, maxToProcess, processedRowCount, processed, orderId,
                 pincode, clicked, lastException, pageClosed, summaryVars,
                 syncPc, tabOpen>>
  /\ UNCHANGED <<callVars, cacheVars, envVars>>

\* `if (orderId && SKIPPED_ORDERS.has(String(orderId).trim()))`, the filter of
\* the revision in orderListPage.js
SkippedNever(id) == FALSE

Skipped(id) == id # "" /\ id \in SKIPPED_ORDERS

\* `if (ORDERS_TO_PROCESS.size > 0) { ... if (!shouldProcess) continue }`
NotListedNever(id) == FALSE

NotListed(id) ==
  /\ ORDERS_TO_PROCESS # {}
  /\ ~(id # "" /\ id \in ORDERS_TO_PROCESS)

\* the id fallback chain and the filters; on a page that is gone the lookups
\* in the row throw
DeriveOrderId ==
  /\ pc = "row"
  /\ \E out \in {"id", "none", "throw"} :
       /\ pageClosed => out = "throw"
       /\ IF out = "throw"
          THEN /\ RowCatch
               /\ UNCHANGED orderId
          ELSE LET id == IF out = "id" THEN RowOrderId(i) ELSE ""
               IN /\ orderId' = id
                  /\ UNCHANGED lastException
                  /\ IF Skipped(id) \/ NotListed(id)
                     THEN Continue
                     ELSE pc' = "click" /\ UNCHANGED i
  /\ pincode' = NULL
  /\ UNCHANGED <<nRows, maxToProcess, processedRowCount, processed, evaluated,
                 clicked, pageClosed, summaryVars, syncPc, tabOpen>>
  /\ UNCHANGED <<callVars, cacheVars, envVars>>

\* the row's trigger (primary or fallback selector) is clicked, then
\* waitForTimeout(1000), which rejects only when the page is gone
ClickTrigger ==
  /\ pc = "click"
  /\ \E out \in {"clicked", "clickThrows", "waitThrows", "noTrigger"} :
       CASE out = "noTrigger" ->
              Continue /\ UNCHANGED <<clicked, lastException, pageClosed>>
         [] out = "clickThrows" ->
              RowCatch /\ UNCHANGED <<clicked, pageClosed>>
         [] out = "waitThrows" ->
              /\ RowCatch
              /\ clicked' = clicked \cup {i}
              /\ pageClosed' = TRUE
         [] OTHER ->
              /\ pc' = "handle"
              /\ clicked' = clicked \cup {i}
              /\ UNCHANGED <<i, lastException, pageClosed>>
  /\ UNCHANGED <<nRows, maxToProcess, processedRowCount, processed, orderId,
                 pincode, evaluated, summaryVars, syncPc, tabOpen>>
  /\ UNCHANGED <<callVars, cacheVars, envVars>>

\* handleResult = await this.handleAddressPopup(i + 1, orderId), errors ignored:
\* no popup, short text, no candidate or an error leave the pincode null
HandleAddressPopup ==
  /\ pc = "handle"
  /\ \E p \in {RowPincode(i), NULL} : pincode' = p
  /\ pc' = "sync"
  /\ UNCHANGED <<i, nRows, maxToProcess, processedRowCount, processed, orderId,
                 evaluated, clicked, lastException, pageClosed, summaryVars,
                 syncPc, tabOpen>>
  /\ UNCHANGED <<callVars, cacheVars, envVars>>

\* the locals of a call of syncShiprocketForOrder before it starts
ResetCall ==
  /\ closeAttempted' = FALSE
  /\ result' = NoResult
  /\ selected' = FALSE
  /\ selectedCarrier' = NULL
  /\ nameAttempts' = {}
  /\ performed' = {}
  /\ attempts' = <<>>
  /\ scanned' = FALSE
  /\ optionClicked' = NULL

\* `if (pincode && orderId)`: syncShiprocketForOrder is called and opens the
\* secondary tab (context.newPage(), outside the try of the callee: a failure
\* is caught by the caller's try around the sync). The callee's own
\* `if (!orderId) return` cannot be taken: the caller passes a non-empty id.
ShouldSyncIdOnly(pin, id) == id # ""

ShouldSync(pin, id) == pin # NULL /\ id # ""

CallSync ==
  /\ pc = "sync"
  /\ IF ShouldSync(pincode, orderId)
     THEN \E opened \in BOOLEAN :
            IF opened
            THEN /\ tabOpen' = tabOpen + 1
                 /\ syncPc' = "goto"
                 /\ pc' = "await"
                 /\ UNCHANGED lastException
            ELSE /\ pc' = "rowEnd"
                 /\ lastException' = i
                 /\ UNCHANGED <<tabOpen, syncPc>>
     ELSE /\ pc' = "rowEnd"
          /\ UNCHANGED <<tabOpen, syncPc, lastException>>
  /\ ResetCall
  /\ UNCHANGED <<i, nRows, maxToProcess, processedRowCount, processed, orderId,
                 pincode, evaluated, clicked, pageClosed, summaryVars>>
  /\ UNCHANGED <<cacheVars, envVars>>

\* `await this.syncShiprocketForOrder(...)`: the caller resumes when the call
\* has returned
SyncNotAwaited == TRUE

SyncReturned == syncPc = "returned"

\* the caller's re-resolution of the carrier from the pincode (lines 1076-1078)
InferFromPincodeDelhiveryFirst(pin, dtdcSet, delhiverySet) ==
  IF pin # NULL /\ pin \in delhiverySet THEN "Delhivery"
  ELSE IF pin # NULL /\ pin \in dtdcSet THEN "DTDC"
  ELSE NULL

InferFromPincode(pin, dtdcSet, delhiverySet) ==
  IF pin # NULL /\ pin \in dtdcSet THEN "DTDC"
  ELSE IF pin # NULL /\ pin \in delhiverySet THEN "Delhivery"
  ELSE NULL

\* the sequence of `processed` a carrier value is pushed to (lines 1084-1087)
ListOfPincodeOnly(reported, inferred) ==
  IF inferred = "DTDC" THEN "DTDC"
  ELSE IF inferred = "Delhivery" THEN "Delhivery"
  ELSE "Unknown"

ListOf(reported, inferred) ==
  LET carrier == IF reported # NULL THEN reported ELSE inferred
  IN IF carrier = "DTDC" THEN "DTDC"
     ELSE IF carrier = "Delhivery" THEN "Delhivery"
     ELSE "Unknown"

\* the result of the sync is classified and pushed (lines 1066-1090)
Classify ==
  /\ pc = "await"
  /\ SyncReturned
  /\ \E t \in Clock :
       LET reported == result.carrier
           c == IF reported = NULL
                THEN loadExcelCaches(excelCache, t)
                ELSE excelCache
           inferred == InferFromPincode(pincode, OrEmpty(c.DTDC),
                                        OrEmpty(c.Delhivery))
           list == ListOf(reported, inferred)
       IN /\ excelCache' = c
          /\ now' = IF reported = NULL THEN t ELSE now
          /\ fileReads' = IF reported = NULL
                          THEN fileReads + ReadsOf(excelCache, t)
                          ELSE fileReads
          /\ processed' = [processed EXCEPT ![list] =
                             Append(@, [orderId |-> orderId,
                                        pincode |-> pincode])]
  /\ syncPc' = "idle"
  /\ pc' = "rowEnd"
  /\ closeAttempted' = FALSE
  /\ selected' = FALSE
  /\ selectedCarrier' = NULL
  /\ nameAttempts' = {}
  /\ performed' = {}
  /\ attempts' = <<>>
  /\ scanned' = FALSE
  /\ optionClicked' = NULL
  /\ UNCHANGED result
  /\ UNCHANGED <<i, nRows, maxToProcess, processedRowCount, orderId, pincode,
                 evaluated, clicked, lastException, pageClosed, summaryVars,
                 tabOpen>>
  /\ UNCHANGED envVars

AfterRowUncounted(count) == count

\* processedRowCount += 1
AfterRow(count) == count + 1

\* per-row log, processedRowCount += 1, the break on the cap, waitForTimeout(200)
\* (which rejects only when the page is gone)
RowEnd ==
  /\ pc = "rowEnd"
  /\ processedRowCount' = AfterRow(processedRowCount)
  /\ IF CapReached(AfterRow(processedRowCount))
     THEN /\ pc' = "summary"
          /\ UNCHANGED <<i, lastException, pageClosed>>
     ELSE \E ok \in BOOLEAN :
            IF ok
            THEN Continue /\ UNCHANGED <<lastException, pageClosed>>
            ELSE RowCatch /\ pageClosed' = TRUE
  /\ UNCHANGED <<nRows, maxToProcess, processed, orderId, pincode, evaluated,
                 clicked, summaryVars, syncPc, tabOpen>>
  /\ UNCHANGED <<callVars, cacheVars, envVars>>

NumberedFromZero(k) == k - 1

\* `${i + 1}.` for the 0-based index i of the k-th item
Numbered(k) == k

\* one line of the summary
Line(kind, title, n, id, pin) ==
  [kind |-> kind, title |-> title, n |-> n, orderId |-> id, pincode |-> pin]

\* `Processed ... (<length>)`, the rule, and one numbered line per item
Section(title, list) ==
  <<Line("header", title, Len(list), "", NULL), Line("rule", "", 0, "", NULL)>>
  \o [k \in 1..Len(list) |->
        Line("entry", "", Numbered(k), list[k].orderId, list[k].pincode)]

\* the lines joined into the file
SummaryLines(p) ==
  Section("DTDC", p.DTDC) \o <<Line("blank", "", 0, "", NULL)>>
  \o Section("Delhivery", p.Delhivery) \o <<Line("blank", "", 0, "", NULL)>>
  \o Section("Unknown", p.Unknown)

\* the three grouped lists are printed and written to logs/summary-<ts>.txt;
\* a failure of the write is ignored
Summary ==
  /\ pc = "summary"
  /\ summaryPrinted' = TRUE
  /\ \E written \in BOOLEAN :
       summaryFile' = IF written THEN SummaryLines(processed) ELSE <<>>
  /\ pc' = "done"
  /\ UNCHANGED <<i, nRows, maxToProcess, processedRowCount, processed, orderId,
                 pincode, evaluated, clicked, lastException, pageClosed, syncPc,
                 tabOpen>>
  /\ UNCHANGED <<callVars, cacheVars, envVars>>

\* ---- syncShiprocketForOrder ---------------------------------------------

\* every return inside the try (lines 456-858) passes through the finally
ExitSkipsFinally(reason) ==
  IF reason = "carrier-override-mismatch" THEN "returned" ELSE "finally"

ExitTarget(reason) == "finally"

Return(r) ==
  /\ result' = r
  /\ syncPc' = ExitTarget(r.reason)

\* `return { synced: false, reason, carrier: null }`
UnsyncedAsSynced(reason) == [synced |-> TRUE, reason |-> reason, carrier |-> NULL]

Unsynced(reason) == [synced |-> FALSE, reason |-> reason, carrier |-> NULL]

\* newPage.goto(targetUrl); a failure is caught by the outer catch
Goto ==
  /\ syncPc = "goto"
  /\ \E ok \in BOOLEAN :
       IF ok
       THEN syncPc' = "syncButton" /\ UNCHANGED result
       ELSE Return(Unsynced("error"))
  /\ UNCHANGED <<closeAttempted, selected, selectedCarrier, nameAttempts,
                 performed, attempts, tabOpen,
                 selectionVars>>
  /\ UNCHANGED <<batchVars, cacheVars, envVars>>

\* `return { synced: false, reason: "no-sync-button" }`
NoSyncButtonSynced == [synced |-> TRUE, reason |-> "no-sync-button",
                       carrier |-> NULL]

NoSyncButton == Unsynced("no-sync-button")

\* wait for #sync_shiprocket and click it
SyncButton ==
  /\ syncPc = "syncButton"
  /\ \E ok \in BOOLEAN :
       IF ok
       THEN /\ syncPc' = "dropdown"
            /\ performed' = performed \cup {"sync"}
            /\ UNCHANGED result
       ELSE /\ Return(NoSyncButton)
            /\ UNCHANGED performed
  /\ UNCHANGED <<closeAttempted, selected, selectedCarrier, nameAttempts,
                 attempts, tabOpen,
                 selectionVars>>
  /\ UNCHANGED <<batchVars, cacheVars, envVars>>

\* wait for the dropdown wrapper of #logisticsModal and click to expand it;
\* when it does not appear the selection is skipped as a whole
Dropdown ==
  /\ syncPc = "dropdown"
  /\ \E shown \in BOOLEAN :
       syncPc' = IF shown THEN "select" ELSE "noDropdown"
  /\ UNCHANGED <<callVars, tabOpen>>
  /\ UNCHANGED <<batchVars, cacheVars, envVars>>

\* the carrier looked up for the pincode when no override is set (lines 590-596)
PincodeCarrierDelhiveryFirst(pin, dtdcSet, delhiverySet) ==
  IF pin # NULL /\ pin \in delhiverySet THEN "Delhivery"
  ELSE IF pin # NULL /\ pin \in dtdcSet THEN "DTDC"
  ELSE NULL

PincodeCarrier(pin, dtdcSet, delhiverySet) ==
  IF pin # NULL /\ pin \in dtdcSet THEN "DTDC"
  ELSE IF pin # NULL /\ pin \in delhiverySet THEN "Delhivery"
  ELSE NULL

\* what lines 556-620 decide: return the override mismatch, try one carrier by
\* name, or try nothing. modalPin is the first pincode extractPincode finds in
\* the text of #logisticsModal (NULL when there is none or the read fails).
SelectionPlan(override, pin, modalPin, dtdcSet, delhiverySet) ==
  LET norm == TrimLower(override)
      byName(name) == [kind |-> "byName", name |-> name]
      nothing == [kind |-> "none", name |-> NULL]
      mismatch == [kind |-> "mismatch", name |-> NULL]
  IN IF override # ""
     THEN IF norm = "dtdc"
          THEN IF pin # NULL /\ pin \in dtdcSet
               THEN byName("DTDC") ELSE mismatch
          ELSE IF norm = "delhivery"
          THEN IF pin # NULL /\ pin \in delhiverySet
               THEN byName("Delhivery") ELSE mismatch
          ELSE nothing
     ELSE LET byPin == PincodeCarrier(pin, dtdcSet, delhiverySet)
          IN IF byPin # NULL
             THEN byName(byPin)
             ELSE IF modalPin # NULL /\ modalPin \in dtdcSet
                  THEN byName("DTDC")
                  ELSE IF modalPin # NULL /\ modalPin \in delhiverySet
                  THEN byName("Delhivery")
                  ELSE nothing

\* the text of #logisticsModal is read only in the last else of the branch
\* without override (lines 596-619)
ScansModal(override, pin, dtdcSet, delhiverySet) ==
  override = "" /\ PincodeCarrier(pin, dtdcSet, delhiverySet) = NULL

\* loadExcelCaches(), then the override / pincode / modal-text selection by
\* name; found is what trySelectByText returns
SelectCarrier ==
  /\ syncPc = "select"
  /\ \E t \in Clock, found \in BOOLEAN, clickOk \in BOOLEAN,
        modalPin \in Pincodes \cup {NULL} :
       LET c == loadExcelCaches(excelCache, t)
           plan == SelectionPlan(CARRIER_OVERRIDE, pincode, modalPin,
                                 OrEmpty(c.DTDC), OrEmpty(c.Delhivery))
       IN /\ excelCache' = c
          /\ now' = t
          /\ fileReads' = fileReads + ReadsOf(excelCache, t)
          /\ scanned' = ScansModal(CARRIER_OVERRIDE, pincode,
                                   OrEmpty(c.DTDC), OrEmpty(c.Delhivery))
          /\ CASE plan.kind = "mismatch" ->
                    /\ Return(Unsynced("carrier-override-mismatch"))
                    /\ UNCHANGED <<selected, selectedCarrier, nameAttempts,
                                   optionClicked>>
               [] plan.kind = "byName" ->
                    /\ nameAttempts' = nameAttempts \cup {plan.name}
                    /\ selected' = found
                    /\ selectedCarrier' = IF found THEN plan.name ELSE NULL
                    /\ optionClicked' =
                         IF found /\ clickOk THEN plan.name ELSE NULL
                    /\ syncPc' = "lastOption"
                    /\ UNCHANGED result
               [] OTHER ->
                    /\ syncPc' = "lastOption"
                    /\ UNCHANGED <<result, selected, selectedCarrier,
                                   nameAttempts, optionClicked>>
  /\ UNCHANGED <<closeAttempted, performed, attempts, tabOpen>>
  /\ UNCHANGED <<batchVars, envVars>>

\* `if (!selected)`: the last option of the first selector that lists options
\* is clicked and the carrier is inferred from its text
LastOption ==
  /\ syncPc = "lastOption"
  /\ \E opt \in OptionTexts \cup {"none", "unreadable"}, clickOk \in BOOLEAN :
       IF selected \/ opt = "none"
       THEN UNCHANGED <<selected, selectedCarrier, optionClicked>>
       ELSE /\ selected' = TRUE
            /\ selectedCarrier' =
                 IF opt # "unreadable" /\ InferCarrier(opt) # NULL
                 THEN InferCarrier(opt)
                 ELSE selectedCarrier
            /\ optionClicked' =
                 IF ~clickOk THEN optionClicked
                 ELSE IF opt # "unreadable" /\ InferCarrier(opt) # NULL
                 THEN InferCarrier(opt)
                 ELSE "other"
  /\ syncPc' = "toggle"
  /\ UNCHANGED <<closeAttempted, result, nameAttempts, performed, attempts,
                 scanned, tabOpen>>
  /\ UNCHANGED <<batchVars, cacheVars, envVars>>

\* the selection block is left (its locals go out of scope); #chk_lst_yes is
\* checked when present, then waitForTimeout(waitMs); only the wait is outside
\* a local try
ToggleAndSettle ==
  /\ syncPc \in {"toggle", "noDropdown"}
  /\ \E ok \in BOOLEAN :
       IF ok
       THEN syncPc' = "submit" /\ UNCHANGED result
       ELSE Return(Unsynced("error"))
  /\ selected' = FALSE
  /\ nameAttempts' = {}
  /\ scanned' = FALSE
  /\ optionClicked' = NULL
  /\ UNCHANGED <<closeAttempted, selectedCarrier, performed, attempts,
                 tabOpen>>
  /\ UNCHANGED <<batchVars, cacheVars, envVars>>

\* the guard of the revision of lines 1510-1514
ExtendedFlowOnly1599(id) == id = "1599" \/ NumberOf(id) = 1599

\* `if (orderId !== "" || orderNumeric !== 0)`
ExtendedFlow(id) == id # "" \/ NumberOf(id) # 0

\* 1) #logistic_sync is clicked when it becomes visible
Submit ==
  /\ syncPc = "submit"
  /\ IF ExtendedFlow(orderId)
     THEN \E didClick \in BOOLEAN :
            /\ performed' = IF didClick THEN performed \cup {"submit"}
                            ELSE performed
            /\ attempts' = Append(attempts, "submit")
            /\ syncPc' = "detach"
     ELSE /\ syncPc' = "closePopup"
          /\ UNCHANGED <<performed, attempts>>
  /\ UNCHANGED <<closeAttempted, result, selected, selectedCarrier,
                 nameAttempts, tabOpen,
                 selectionVars>>
  /\ UNCHANGED <<batchVars, cacheVars, envVars>>

\* 2) #logisticsModal detaches, or a fixed wait (whose failure leaves the
\* extended flow), then CloseSyncPopup
Detach ==
  /\ syncPc = "detach"
  /\ \E out \in {"detached", "waited", "waitThrows"} :
       IF out = "waitThrows"
       THEN /\ attempts' = Append(attempts, "detach")
            /\ syncPc' = "closePopup"
       ELSE /\ attempts' = attempts \o <<"detach", "closePopup">>
            /\ syncPc' = "fetch"
  /\ UNCHANGED <<closeAttempted, result, selected, selectedCarrier,
                 nameAttempts, performed, tabOpen,
                 selectionVars>>
  /\ UNCHANGED <<batchVars, cacheVars, envVars>>

\* 3) the fetch button is clicked when it becomes visible
Fetch ==
  /\ syncPc = "fetch"
  /\ \E didClick \in BOOLEAN, out \in {"ok", "waitThrows"} :
       /\ performed' = IF didClick THEN performed \cup {"fetch"} ELSE performed
       /\ attempts' = Append(attempts, "fetch")
       /\ syncPc' = IF out = "waitThrows" THEN "closePopup" ELSE "invoice"
  /\ UNCHANGED <<closeAttempted, result, selected, selectedCarrier,
                 nameAttempts, tabOpen,
                 selectionVars>>
  /\ UNCHANGED <<batchVars, cacheVars, envVars>>

\* `if (selectedCarrier === "Delhivery")`
NeedsInvoiceAlways(carrier) == TRUE

NeedsInvoice(carrier) == carrier = "Delhivery"

\* 4) Delhivery only: #gen_gst_invoice is awaited and clicked, then
\* #gst_invoice_nb is polled for up to 8 s; every failure is ignored
Invoice ==
  /\ syncPc = "invoice"
  /\ IF NeedsInvoice(selectedCarrier)
     THEN /\ \E out \in {"noButton", "clickFailed", "populated", "notPopulated",
                          "pollThrows"} :
               performed' =
                 CASE out \in {"noButton", "clickFailed"} -> performed
                   [] out = "populated" ->
                        performed \cup {"invoice", "invoiceNumber"}
                   [] OTHER -> performed \cup {"invoice"}
          /\ attempts' = Append(attempts, "invoice")
     ELSE UNCHANGED <<performed, attempts>>
  /\ syncPc' = "save"
  /\ UNCHANGED <<closeAttempted, result, selected, selectedCarrier,
                 nameAttempts, tabOpen,
                 selectionVars>>
  /\ UNCHANGED <<batchVars, cacheVars, envVars>>

\* #save_order is clicked when it becomes visible; 5) waitForTimeout(3000)
Save ==
  /\ syncPc = "save"
  /\ \E didClick \in BOOLEAN :
       performed' = IF didClick THEN performed \cup {"save"} ELSE performed
  /\ attempts' = Append(attempts, "save")
  /\ syncPc' = "closePopup"
  /\ UNCHANGED <<closeAttempted, result, selected, selectedCarrier,
                 nameAttempts, tabOpen,
                 selectionVars>>
  /\ UNCHANGED <<batchVars, cacheVars, envVars>>

\* CloseSyncPopup(newPage) and `return { synced: true, carrier }`
ClosePopupAndReturn ==
  /\ syncPc = "closePopup"
  /\ Return([synced |-> TRUE, reason |-> "", carrier |-> selectedCarrier])
  /\ UNCHANGED <<closeAttempted, selected, selectedCarrier, nameAttempts,
                 performed, attempts, tabOpen,
                 selectionVars>>
  /\ UNCHANGED <<batchVars, cacheVars, envVars>>

\* finally { try { await newPage.close() } catch (e) {} }: close() fails only
\* on a page that is already gone
Finally ==
  /\ syncPc = "finally"
  /\ closeAttempted' = TRUE
  /\ tabOpen' = tabOpen - 1
  /\ syncPc' = "returned"
  /\ UNCHANGED <<result, selected, selectedCarrier, nameAttempts, performed,
                 attempts, selectionVars>>
  /\ UNCHANGED <<batchVars, cacheVars, envVars>>

Next ==
  \/ WaitForTable
  \/ LoopHead
  \/ DeriveOrderId
  \/ ClickTrigger
  \/ HandleAddressPopup
  \/ CallSync
  \/ Classify
  \/ RowEnd
  \/ Summary
  \/ Goto
  \/ SyncButton
  \/ Dropdown
  \/ SelectCarrier
  \/ LastOption
  \/ ToggleAndSettle
  \/ Submit
  \/ Detach
  \/ Fetch
  \/ Invoice
  \/ Save
  \/ ClosePopupAndReturn
  \/ Finally

Spec == Init /\ [][Next]_vars

SpecConfig == InitConfig /\ [][Next]_vars

\* a call of loadExcelCaches() some time after the last one
LoadExcelCachesCall ==
  /\ \E dt \in Elapses :
       LET t == now + dt
       IN /\ t <= Horizon
          /\ now' = t
          /\ excelCache' = loadExcelCaches(excelCache, t)
          /\ fileReads' = fileReads + ReadsOf(excelCache, t)
  /\ UNCHANGED <<syncPc, tabOpen>>
  /\ UNCHANGED <<batchVars, callVars, envVars>>

NextCache == LoadExcelCachesCall

SpecCache == InitCache /\ [][NextCache]_vars

\* one of the two files is rewritten, removed or damaged between two calls
FileChange ==
  /\ \E name \in {"DTDC", "Delhivery"}, rows \in SUBSET Pincodes,
        st \in FileStates :
       /\ fileState' = [fileState EXCEPT ![name] = st]
       /\ fileDTDC' = IF name = "DTDC" THEN rows ELSE fileDTDC
       /\ fileDelhivery' = IF name = "Delhivery" THEN rows ELSE fileDelhivery
  /\ UNCHANGED <<xlsx, textVars, popupVars, dialogVars, pollVars, CARRIER_OVERRIDE, PROCESS_COUNT,
                 ORDERS_TO_PROCESS, SKIPPED_ORDERS>>
  /\ UNCHANGED <<syncPc, tabOpen>>
  /\ UNCHANGED <<batchVars, callVars, cacheVars>>

\* a call of extractPincode(rawText)
ExtractCall ==
  /\ Len(extractions) < MaxCalls
  /\ extractions' = Append(extractions, extractPincode(rawText))
  /\ UNCHANGED <<fileVars, rawText, popupVars, dialogVars, pollVars, CARRIER_OVERRIDE, PROCESS_COUNT,
                 ORDERS_TO_PROCESS, SKIPPED_ORDERS>>
  /\ UNCHANGED <<syncPc, tabOpen>>
  /\ UNCHANGED <<batchVars, callVars, cacheVars>>

NextExtract == ExtractCall

\* runs that only call extractPincode, on every text of Texts
InitExtract ==
  /\ Start
  /\ FilesOk
  /\ fileDTDC = {"686001"}
  /\ fileDelhivery = {"682021"}
  /\ rawText \in Texts
  /\ extractions = <<>>
  /\ NoPopup
  /\ NoDialogs
  /\ NoPoll
  /\ CARRIER_OVERRIDE = ""
  /\ PROCESS_COUNT = ""
  /\ ORDERS_TO_PROCESS = {}
  /\ SKIPPED_ORDERS = {""}

SpecExtract == InitExtract /\ [][NextExtract]_vars

\* ---- handleAddressPopup -------------------------------------------------
\* `rawText.length`
RECURSIVE TextLength(_)
TextLength(t) == IF t = <<>> THEN 0 ELSE Head(t).n + TextLength(Tail(t))

\* `.trim()`: the white space at both ends is removed
RECURSIVE Trim(_)
Trim(t) ==
  IF t = <<>> THEN t
  ELSE IF Head(t).k = "s" THEN Trim(Tail(t))
  ELSE IF t[Len(t)].k = "s" THEN Trim(SubSeq(t, 1, Len(t) - 1))
  ELSE t

\* `/[A-Za-z0-9]/.test(rawText)`
HasAddressChar(t) == \E p \in 1..Len(t) : t[p].k \in WordKinds

\* `textLength < 150`
TooShortInclusive(len) == len <= 150

TooShort(len) == len < 150

\* a run of `len` full stops
Dots(len) == [k |-> "p", d |-> <<>>, n |-> len]

\* "Pincode: 689672", 15 characters
Sample == <<Label, Char(":"), Char("s"), Digits(<<6, 8, 9, 6, 7, 2>>)>>

\* what the popup shows: texts of 0, 3, 15, 149, 150, 157 and 200 characters,
\* one of 149 between two spaces, and 150 characters without letter or digit
PopupTexts ==
  { <<>>,
    <<Dots(3)>>,
    Sample,
    Sample \o <<Char("s"), Word(133)>>,
    Sample \o <<Char("s"), Word(134)>>,
    <<Char("s")>> \o Sample \o <<Char("s"), Word(133), Char("s")>>,
    <<Dots(150)>>,
    <<Word(200)>>,
    <<Digits(<<6, 8, 2, 0, 2, 1>>), Char("s"), Word(150)>> }

\* `await this.page.waitForSelector(selector, {state: "visible", ...})`
WaitForPopup ==
  /\ popPc = "wait"
  /\ \E out \in {"visible", "timeout"} :
       /\ popupLog' = Append(popupLog, out)
       /\ popPc' = IF out = "visible" THEN "query" ELSE "returned"
  /\ UNCHANGED <<popupText, handleResult>>
  /\ UNCHANGED <<fileVars, textVars, dialogVars, pollVars, CARRIER_OVERRIDE, PROCESS_COUNT,
                 ORDERS_TO_PROCESS, SKIPPED_ORDERS>>
  /\ UNCHANGED <<syncPc, tabOpen>>
  /\ UNCHANGED <<batchVars, callVars, cacheVars>>

\* `const el = await this.page.$(selector); if (!el) return ...`
QueryPopup ==
  /\ popPc = "query"
  /\ \E out \in {"element", "noElement", "throws"} :
       /\ popupLog' = Append(popupLog, out)
       /\ popPc' = CASE out = "element" -> "read"
                     [] out = "noElement" -> "returned"
                     [] OTHER -> "thrown"
  /\ UNCHANGED <<popupText, handleResult>>
  /\ UNCHANGED <<fileVars, textVars, dialogVars, pollVars, CARRIER_OVERRIDE, PROCESS_COUNT,
                 ORDERS_TO_PROCESS, SKIPPED_ORDERS>>
  /\ UNCHANGED <<syncPc, tabOpen>>
  /\ UNCHANGED <<batchVars, callVars, cacheVars>>

\* `const rawText = (await el.innerText()).trim()` and the test of its length
ReadText ==
  /\ popPc = "read"
  /\ \E ok \in BOOLEAN :
       IF ok
       THEN /\ rawText' = Trim(popupText)
            /\ popupLog' = Append(popupLog, "text")
            /\ popPc' = IF TooShort(TextLength(Trim(popupText)))
                        THEN "closeShort"
                        ELSE "extract"
       ELSE /\ rawText' = rawText
            /\ popupLog' = Append(popupLog, "throws")
            /\ popPc' = "thrown"
  /\ UNCHANGED <<popupText, handleResult, extractions>>
  /\ UNCHANGED <<fileVars, dialogVars, pollVars, CARRIER_OVERRIDE, PROCESS_COUNT, ORDERS_TO_PROCESS,
                 SKIPPED_ORDERS>>
  /\ UNCHANGED <<syncPc, tabOpen>>
  /\ UNCHANGED <<batchVars, callVars, cacheVars>>

\* `const pincodes = extractPincode(rawText)`
ExtractFromPopup ==
  /\ popPc = "extract"
  /\ extractions' = Append(extractions, extractPincode(rawText))
  /\ popPc' = "close"
  /\ UNCHANGED <<popupText, handleResult, popupLog, rawText>>
  /\ UNCHANGED <<fileVars, dialogVars, pollVars, CARRIER_OVERRIDE, PROCESS_COUNT, ORDERS_TO_PROCESS,
                 SKIPPED_ORDERS>>
  /\ UNCHANGED <<syncPc, tabOpen>>
  /\ UNCHANGED <<batchVars, callVars, cacheVars>>

\* the close block: the lookup of the preferred button, the click or the
\* Escape, the wait after it, and the Escape of the catch
CloseSteps(btn, actOk, waitOk) ==
  CASE btn = "lookupFailed" -> <<"lookupFailed", "escape">>
    [] btn = "button" ->
         IF ~actOk THEN <<"button", "click", "clickFailed", "escape">>
         ELSE IF ~waitOk THEN <<"button", "click", "waitFailed", "escape">>
         ELSE <<"button", "click">>
    [] OTHER ->
         IF ~actOk THEN <<"noButton", "escape", "escapeFailed", "escape">>
         ELSE IF ~waitOk THEN <<"noButton", "escape", "waitFailed", "escape">>
         ELSE <<"noButton", "escape">>

\* the value returned after the close block
ResultOfPopup(short) ==
  IF short
  THEN [foundAddress |-> FALSE, pincode |-> <<>>, pincodes |-> <<>>,
        rawText |-> rawText, textRead |-> TRUE]
  ELSE LET pincodes == extractions[Len(extractions)]
       IN [foundAddress |-> HasAddressChar(rawText),
           pincode |-> IF pincodes # <<>> THEN pincodes[1] ELSE <<>>,
           pincodes |-> pincodes,
           rawText |-> rawText, textRead |-> TRUE]

ClosePopup ==
  /\ popPc \in {"closeShort", "close"}
  /\ \E btn \in {"button", "noButton", "lookupFailed"}, actOk \in BOOLEAN,
        waitOk \in BOOLEAN :
       popupLog' = popupLog \o CloseSteps(btn, actOk, waitOk)
  /\ handleResult' = ResultOfPopup(popPc = "closeShort")
  /\ popPc' = "returned"
  /\ UNCHANGED <<popupText, textVars>>
  /\ UNCHANGED <<fileVars, dialogVars, pollVars, CARRIER_OVERRIDE, PROCESS_COUNT, ORDERS_TO_PROCESS,
                 SKIPPED_ORDERS>>
  /\ UNCHANGED <<syncPc, tabOpen>>
  /\ UNCHANGED <<batchVars, callVars, cacheVars>>

NextPopup ==
  \/ WaitForPopup
  \/ QueryPopup
  \/ ReadText
  \/ ExtractFromPopup
  \/ ClosePopup

\* runs of one call of handleAddressPopup
InitPopup ==
  /\ Start
  /\ FilesOk
  /\ fileDTDC = {"686001"}
  /\ fileDelhivery = {"682021"}
  /\ rawText = <<>>
  /\ extractions = <<>>
  /\ popPc = "wait"
  /\ popupText \in PopupTexts
  /\ handleResult = NoHandleResult
  /\ popupLog = <<>>
  /\ NoDialogs
  /\ NoPoll
  /\ CARRIER_OVERRIDE = ""
  /\ PROCESS_COUNT = ""
  /\ ORDERS_TO_PROCESS = {}
  /\ SKIPPED_ORDERS = {""}

SpecPopup == InitPopup /\ [][NextPopup]_vars

\* ---- native dialogs of the extended flow --------------------------------
\* what becomes of n dialogs raised one after the other while h one-shot
\* listeners are registered: the first dialog runs every listener, each calls
\* dialog.accept() (all but the first call fail and are ignored) and is
\* removed; a dialog raised while no listener is registered is accepted by
\* nothing in this code
RECURSIVE DialogOutcomes(_, _, _)
DialogOutcomes(step, h, n) ==
  IF n = 0 THEN <<>>
  ELSE <<[step |-> step,
          outcome |-> IF h > 0 THEN "accepted" ELSE "dismissed"]>>
         \o DialogOutcomes(step, 0, n - 1)

\* a step that waits for its button, registers a listener with
\* newPage.once("dialog", ...) and clicks: the listener is registered only
\* when the wait succeeds, and only a performed click raises dialogs
ClickWithHandler(step) ==
  /\ \E found \in BOOLEAN, raised \in 0..MaxDialogs :
       /\ ~found => raised = 0
       /\ LET h == IF found THEN handlers + 1 ELSE handlers
          IN /\ handlers' = IF raised > 0 THEN 0 ELSE h
             /\ dialogLog' = dialogLog \o DialogOutcomes(step, h, raised)
  /\ UNCHANGED <<fileVars, textVars, popupVars, pollVars, CARRIER_OVERRIDE,
                 PROCESS_COUNT, ORDERS_TO_PROCESS, SKIPPED_ORDERS>>
  /\ UNCHANGED <<syncPc, tabOpen>>
  /\ UNCHANGED <<batchVars, callVars, cacheVars>>

SubmitClick ==
  /\ dlgPc = "submit"
  /\ ClickWithHandler("submit")
  /\ dlgPc' = "fetch"

FetchClick ==
  /\ dlgPc = "fetch"
  /\ ClickWithHandler("fetch")
  /\ dlgPc' = "invoice"

\* the invoice block is entered for Delhivery only
InvoiceClick ==
  /\ dlgPc = "invoice"
  /\ \E carrier \in {"DTDC", "Delhivery"} :
       IF NeedsInvoice(carrier)
       THEN ClickWithHandler("invoice")
       ELSE /\ UNCHANGED <<handlers, dialogLog>>
            /\ UNCHANGED <<fileVars, textVars, popupVars, pollVars, CARRIER_OVERRIDE,
                           PROCESS_COUNT, ORDERS_TO_PROCESS, SKIPPED_ORDERS>>
            /\ UNCHANGED <<syncPc, tabOpen>>
            /\ UNCHANGED <<batchVars, callVars, cacheVars>>
  /\ dlgPc' = "save"

SaveClick ==
  /\ dlgPc = "save"
  /\ ClickWithHandler("save")
  /\ dlgPc' = "done"

NextDialog == SubmitClick \/ FetchClick \/ InvoiceClick \/ SaveClick

\* runs of the four clicks of one extended flow
InitDialog ==
  /\ Start
  /\ FilesOk
  /\ fileDTDC = {"686001"}
  /\ fileDelhivery = {"682021"}
  /\ rawText = <<>>
  /\ extractions = <<>>
  /\ NoPopup
  /\ NoPoll
  /\ dlgPc = "submit"
  /\ handlers = 0
  /\ dialogLog = <<>>
  /\ CARRIER_OVERRIDE = ""
  /\ PROCESS_COUNT = ""
  /\ ORDERS_TO_PROCESS = {}
  /\ SKIPPED_ORDERS = {""}

SpecDialog == InitDialog /\ [][NextDialog]_vars

\* ---- the wait for the invoice number (lines 795-815) ---------------------

\* const timeout = 8000
PollTimeout == 8000

\* await newPage.waitForTimeout(250)
PollSleep == 250

\* the time, in ms, one evaluation in the page takes
EvaluateDurations == {0, 100}

\* waitForTimeout(250) resolves after 250 ms or somewhat later
SleepDurations == {PollSleep, PollSleep + 50}

ExpiredNever(ms) == FALSE

\* the negation of the loop condition `Date.now() - start < timeout`
Expired(ms) == ~(ms < PollTimeout)

\* const start = Date.now(); let populated = false
StartPoll ==
  /\ pollPc = "idle"
  /\ pollPc' = "test"
  /\ elapsed' = 0
  /\ polls' = 0
  /\ populated' = FALSE
  /\ UNCHANGED <<fileVars, textVars, popupVars, dialogVars, CARRIER_OVERRIDE,
                 PROCESS_COUNT, ORDERS_TO_PROCESS, SKIPPED_ORDERS>>
  /\ UNCHANGED <<syncPc, tabOpen>>
  /\ UNCHANGED <<batchVars, callVars, cacheVars>>

\* while (Date.now() - start < timeout)
PollTest ==
  /\ pollPc = "test"
  /\ pollPc' = IF Expired(elapsed) THEN "exited" ELSE "evaluate"
  /\ UNCHANGED <<elapsed, polls, populated>>
  /\ UNCHANGED <<fileVars, textVars, popupVars, dialogVars, CARRIER_OVERRIDE,
                 PROCESS_COUNT, ORDERS_TO_PROCESS, SKIPPED_ORDERS>>
  /\ UNCHANGED <<syncPc, tabOpen>>
  /\ UNCHANGED <<batchVars, callVars, cacheVars>>

\* the evaluation of #gst_invoice_nb: a non-empty value ends the loop, an
\* empty one or a failed evaluation goes on to the sleep
PollEvaluate ==
  /\ pollPc = "evaluate"
  /\ \E out \in {"value", "empty", "throws"}, d \in EvaluateDurations :
       /\ elapsed' = elapsed + d
       /\ populated' = (out = "value")
       /\ pollPc' = IF out = "value" THEN "exited" ELSE "sleep"
  /\ polls' = polls + 1
  /\ UNCHANGED <<fileVars, textVars, popupVars, dialogVars, CARRIER_OVERRIDE,
                 PROCESS_COUNT, ORDERS_TO_PROCESS, SKIPPED_ORDERS>>
  /\ UNCHANGED <<syncPc, tabOpen>>
  /\ UNCHANGED <<batchVars, callVars, cacheVars>>

\* the short sleep; when it is rejected the exception leaves the loop for
\* the catch of the invoice step
PollSleepStep ==
  /\ pollPc = "sleep"
  /\ \E ok \in BOOLEAN, d \in SleepDurations :
       IF ok
       THEN elapsed' = elapsed + d /\ pollPc' = "test"
       ELSE elapsed' = elapsed /\ pollPc' = "aborted"
  /\ UNCHANGED <<polls, populated>>
  /\ UNCHANGED <<fileVars, textVars, popupVars, dialogVars, CARRIER_OVERRIDE,
                 PROCESS_COUNT, ORDERS_TO_PROCESS, SKIPPED_ORDERS>>
  /\ UNCHANGED <<syncPc, tabOpen>>
  /\ UNCHANGED <<batchVars, callVars, cacheVars>>

NextPoll == StartPoll \/ PollTest \/ PollEvaluate \/ PollSleepStep

\* runs of one wait for the invoice number
InitPoll ==
  /\ Start
  /\ FilesOk
  /\ fileDTDC = {"686001"}
  /\ fileDelhivery = {"682021"}
  /\ NoText
  /\ CARRIER_OVERRIDE = ""
  /\ PROCESS_COUNT = ""
  /\ ORDERS_TO_PROCESS = {}
  /\ SKIPPED_ORDERS = {""}

\* the continuation of an await runs once the awaited promise has settled
SpecPoll == InitPoll /\ [][NextPoll]_vars /\ WF_vars(NextPoll)

NextReload == LoadExcelCachesCall \/ FileChange

\* runs that call loadExcelCaches while the files change on disk
SpecReload == InitCache /\ [][NextReload]_vars

\* ---- properties ---------------------------------------------------------

Lists == {"DTDC", "Delhivery", "Unknown"}

\* the order id is recorded in the sequence `list` of the summary
InList(list, id) ==
  \E k \in 1..Len(processed[list]) : processed[list][k].orderId = id

Recognised(override) == TrimLower(override) \in {"dtdc", "delhivery"}

\* the lookup data of the carrier an override names, and the other carrier
OverrideData(override) ==
  IF TrimLower(override) = "dtdc"
  THEN readPincodesFromExcel("DTDC")
  ELSE readPincodesFromExcel("Delhivery")

OtherCarrier(override) ==
  IF TrimLower(override) = "dtdc" THEN "Delhivery" ELSE "DTDC"

RunEnded == pc \in {"done", "thrown"}

\* the lookup sets as the code reads them (`_excelCache.X || new Set()`)
DtdcSet == OrEmpty(excelCache.DTDC)

DelhiverySet == OrEmpty(excelCache.Delhivery)

\* C1: an exception raised while a row is processed never leaves the row
\* loop: once the run has ended after such an exception, it ended normally
\* with the summary printed, and every row was evaluated unless the
\* PROCESS_COUNT cap stopped the loop.
C1_RowExceptionContained ==
  /\ (pc = "thrown" => evaluated = {} /\ lastException = 0)
  /\ (RunEnded /\ lastException # 0) =>
       /\ pc = "done"
       /\ summaryPrinted
       /\ \A r \in 1..nRows :
            r \notin evaluated => CapReached(processedRowCount)

\* an exception in row 1, row 2 evaluated afterwards, the summary printed
C1_Witness ==
  /\ pc = "done"
  /\ summaryPrinted
  /\ lastException = 1
  /\ 2 \in evaluated

\* C2: a call of syncShiprocketForOrder that opened a secondary tab has
\* attempted to close it when it returns, whatever the exit path, and no
\* secondary tab is open once the call has returned.
C2_TabClosedOnReturn ==
  /\ syncPc = "returned" => closeAttempted /\ tabOpen = 0
  /\ syncPc = "idle" => tabOpen = 0

\* a call that has returned through the override-mismatch exit
C2_Witness ==
  /\ syncPc = "returned"
  /\ result.reason = "carrier-override-mismatch"
  /\ closeAttempted

\* C3: rows are processed one after the other: at most one secondary tab is
\* open, and whenever the batch is anywhere but waiting for the sync of the
\* current row (in particular when it clicks the trigger of the next row) no
\* sync call is running and no secondary tab is open.
C3_Sequential ==
  /\ tabOpen <= 1
  /\ pc # "await" => syncPc = "idle" /\ tabOpen = 0

\* the trigger of row 2 has been clicked after the sync of row 1 was recorded
C3_Witness ==
  /\ pc = "handle"
  /\ i = 2
  /\ 2 \in clicked
  /\ \E list \in Lists : InList(list, RowOrderId(1))

\* C4: every run that has ended has reached the summary step, whatever the
\* table shows (also when no row becomes visible) and whatever failed.
C4_RunEndsWithSummary == RunEnded => summaryPrinted

\* C5: under a recognized override, for a pincode that is not in that
\* carrier's lookup data, a call that got past navigation and the sync
\* trigger performs none of submit, fetch and save and returns the
\* override-mismatch result.
C5_MismatchSkipsSync ==
  (/\ syncPc # "idle"
   /\ Recognised(CARRIER_OVERRIDE)
   /\ pincode \notin OverrideData(CARRIER_OVERRIDE)) =>
     /\ performed \cap {"submit", "fetch", "save"} = {}
     /\ (syncPc = "returned" /\ result.reason \notin {"error", "no-sync-button"})
          => result = Unsynced("carrier-override-mismatch")

\* C6: an order whose sync returned carrier-override-mismatch is recorded in
\* none of the three sequences of the summary.
C6_MismatchNotRecorded ==
  (pc = "rowEnd" /\ result.reason = "carrier-override-mismatch") =>
     \A list \in Lists : ~InList(list, orderId)

\* C7: under a recognized override the sync never reports the other carrier
\* and the other carrier's sequence stays empty.
C7_OverrideNeverOtherCarrier ==
  Recognised(CARRIER_OVERRIDE) =>
    /\ result.carrier # OtherCarrier(CARRIER_OVERRIDE)
    /\ processed[OtherCarrier(CARRIER_OVERRIDE)] = <<>>

\* C8: with a non-empty override that names no known carrier, the carrier the
\* pincode resolves to has been tried by name before the last-option fallback.
C8_UnknownOverrideResolvesByPincode ==
  (/\ syncPc = "lastOption"
   /\ CARRIER_OVERRIDE # ""
   /\ ~Recognised(CARRIER_OVERRIDE)) =>
     /\ pincode \in DtdcSet => "DTDC" \in nameAttempts
     /\ (pincode \notin DtdcSet /\ pincode \in DelhiverySet)
          => "Delhivery" \in nameAttempts

\* C9: without an override, when the selection by name is over, exactly DTDC
\* was tried by name for a pincode in DTDC's set (also one in both sets) and
\* exactly Delhivery for a pincode only in Delhivery's set; and an order
\* whose sync reported no carrier is recorded with the same priority.
C9_DtdcFirst ==
  /\ (CARRIER_OVERRIDE = "" /\ syncPc = "lastOption") =>
       /\ pincode \in DtdcSet => nameAttempts = {"DTDC"}
       /\ (pincode \notin DtdcSet /\ pincode \in DelhiverySet)
            => nameAttempts = {"Delhivery"}
  /\ (/\ CARRIER_OVERRIDE = ""
      /\ pc = "rowEnd"
      /\ result # NoResult
      /\ result.carrier = NULL) =>
       /\ pincode \in DtdcSet => InList("DTDC", orderId)
       /\ (pincode \notin DtdcSet /\ pincode \in DelhiverySet)
            => InList("Delhivery", orderId)

\* a pincode in both sets for which DTDC was tried by name
C9_Witness ==
  /\ CARRIER_OVERRIDE = ""
  /\ syncPc = "lastOption"
  /\ pincode \in DtdcSet \cap DelhiverySet
  /\ nameAttempts = {"DTDC"}

\* the carrier a pincode resolves to in the lookup sets
ByLookup(pin) ==
  IF pin \in DtdcSet THEN "DTDC"
  ELSE IF pin \in DelhiverySet THEN "Delhivery"
  ELSE "Unknown"

\* C10 as claimed: without an override every recorded order is listed under
\* the carrier its pincode resolves to in the lookup sets.
C10_ListedByPincode ==
  CARRIER_OVERRIDE = "" =>
    \A list \in Lists : \A k \in 1..Len(processed[list]) :
      list = ByLookup(processed[list][k].pincode)

\* C10 as amended: without an override, the order of a sync that returned is
\* recorded in exactly one sequence: that of the carrier the sync reported,
\* or, when it reported none, that of the carrier its pincode resolves to.
C10_ListedByReportedThenPincode ==
  (CARRIER_OVERRIDE = "" /\ pc = "rowEnd" /\ result # NoResult) =>
    \A list \in Lists :
      InList(list, orderId) <=>
        list = (IF result.carrier # NULL THEN result.carrier
                ELSE ByLookup(pincode))

\* an order listed under DTDC, as reported, whose pincode is not in DTDC's set
C10_Witness ==
  /\ CARRIER_OVERRIDE = ""
  /\ pc = "rowEnd"
  /\ result.carrier = "DTDC"
  /\ pincode \notin DtdcSet
  /\ InList("DTDC", orderId)

\* C11: a sync call is running, or a secondary tab is open, only for a row
\* with a pincode from the popup and a derived order id; a row that reaches
\* its end without a pincode had no sync call and is in none of the three
\* sequences, and every recorded order has a pincode and an id.
C11_SyncOnlyWithPincodeAndId ==
  /\ (syncPc # "idle" \/ tabOpen > 0) => (pincode # NULL /\ orderId # "")
  /\ (pc = "rowEnd" /\ (pincode = NULL \/ orderId = "")) =>
       /\ result = NoResult
       /\ \A list \in Lists : ~InList(list, orderId)
  /\ \A list \in Lists : \A k \in 1..Len(processed[list]) :
       processed[list][k].pincode # NULL /\ processed[list][k].orderId # ""

\* row 2, with an id, was clicked and ended without a pincode and without a
\* record, after row 1 was synced and recorded
C11_Witness ==
  /\ pc = "rowEnd"
  /\ i = 2
  /\ 2 \in clicked
  /\ orderId = RowOrderId(2)
  /\ pincode = NULL
  /\ InList("DTDC", RowOrderId(1))
  /\ \A list \in Lists : ~InList(list, RowOrderId(2))

\* the positions of the three sequences that hold a record of the order id
RecordsOf(id) ==
  {p \in UNION {{<<list, k>> : k \in 1..Len(processed[list])} : list \in Lists} :
     processed[p[1]][p[2]].orderId = id}

\* C12: when the sync call of a row has returned, synced or not, the three
\* sequences hold exactly one record of the row's order: it is the last record
\* of the sequence of the carrier the call reported or, when it reported
\* none, of the carrier the pincode resolves to (DTDC, else Delhivery, else
\* Unknown), and it carries the row's order id and pincode.
C12_OneRecordPerReturnedSync ==
  (pc = "rowEnd" /\ result # NoResult) =>
    LET expected == IF result.carrier # NULL THEN result.carrier
                    ELSE ByLookup(pincode)
        last == Len(processed[expected])
    IN /\ RecordsOf(orderId) = {<<expected, last>>}
       /\ processed[expected][last] = [orderId |-> orderId, pincode |-> pincode]

\* a call that returned unsynced without a carrier, recorded under Delhivery
\* for a pincode that is in Delhivery's set and not in DTDC's
C12_Witness ==
  /\ pc = "rowEnd"
  /\ result = NoSyncButton
  /\ pincode \in DelhiverySet \ DtdcSet
  /\ RecordsOf(orderId) = {<<"Delhivery", Len(processed["Delhivery"])>>}

C14_NoSyncButtonStopsCall ==
  /\ (syncPc \in {"finally", "returned"} /\ "sync" \notin performed) =>
       \/ result = Unsynced("error")
       \/ result = [synced |-> FALSE, reason |-> "no-sync-button",
                    carrier |-> NULL]
  /\ result.reason = "no-sync-button" =>
       /\ ~result.synced
       /\ syncPc \in {"finally", "returned"} =>
            /\ performed = {}
            /\ nameAttempts = {}
            /\ ~selected
            /\ selectedCarrier = NULL

\* a call that returned no-sync-button and closed its tab
C14_Witness ==
  /\ syncPc = "returned"
  /\ result.reason = "no-sync-button"
  /\ closeAttempted
  /\ tabOpen = 0

\* C15: the sync call of a row returns a result, also when its secondary tab
\* could not be opened: at the end of a row that had a pincode and an id a
\* result is there; and a call that returned without clicking the sync
\* trigger (failed open or navigation) returned unsynced with a reason.
C15_OpenOrGotoFailureReturnsUnsynced ==
  /\ (pc = "rowEnd" /\ pincode # NULL /\ orderId # "") => result # NoResult
  /\ (syncPc = "returned" /\ "sync" \notin performed) =>
       ~result.synced /\ result.reason # ""

\* the values of PROCESS_COUNT that are a positive integer
PositiveInteger(s) == s \in {"1", "2"}

\* C16: with PROCESS_COUNT a positive integer N at most N rows have their
\* trigger clicked, at most N rows are processed and once the N-th is
\* processed the loop is left; with any other PROCESS_COUNT (absent,
\* non-numeric, not positive) a run that ends has evaluated every row.
C16_CapOnlyForPositiveInteger ==
  /\ PositiveInteger(PROCESS_COUNT) =>
       LET N == ParseInt(PROCESS_COUNT)
       IN /\ Cardinality(clicked) <= N
          /\ processedRowCount <= N
          /\ processedRowCount = N => pc \in {"summary", "done"}
  /\ (~PositiveInteger(PROCESS_COUNT) /\ pc = "done") => evaluated = 1..nRows

\* the positions of the loop body after the filters, in which orderId is the
\* id derived for the row whose trigger is about to be or has been clicked
AfterFilters ==
  \/ pc \in {"click", "handle", "sync", "await", "rowEnd"}
  \/ i \in clicked
  \/ syncPc # "idle"
  \/ tabOpen > 0

C18_OnlyListedProcessed ==
  /\ [](ORDERS_TO_PROCESS # {} =>
          /\ AfterFilters => orderId \in ORDERS_TO_PROCESS
          /\ \A list \in Lists : \A k \in 1..Len(processed[list]) :
               processed[list][k].orderId \in ORDERS_TO_PROCESS)
  /\ [][(ORDERS_TO_PROCESS = {} /\ pc = "row" /\ pc' = "loop") =>
          (lastException' = i \/ orderId' \in SKIPPED_ORDERS \ {""})]_vars

\* a run over two rows with only order 102 listed: row 1 was evaluated and
\* not clicked, row 2 was clicked and recorded
C18_Witness ==
  /\ pc = "done"
  /\ ORDERS_TO_PROCESS = {RowOrderId(2)}
  /\ evaluated = {1, 2}
  /\ clicked = {2}
  /\ lastException = 0
  /\ RecordsOf(RowOrderId(2)) # {}
  /\ RecordsOf(RowOrderId(1)) = {}

\* C19: a call of loadExcelCaches made less than reloadInterval after the
\* call that loaded both sets reads no file and leaves the two sets and
\* lastLoaded as they are, so the two calls read the files once in total.
C19_SecondCallWithinIntervalReadsNothing ==
  [][(/\ excelCache.lastLoaded # 0
      /\ now' - excelCache.lastLoaded < reloadInterval) =>
        (fileReads' = fileReads /\ excelCache' = excelCache)]_vars

\* the clock was read reloadInterval - 1 after the only load of the two files
C19_Witness ==
  /\ excelCache.lastLoaded = StartTime
  /\ excelCache.DTDC = fileDTDC
  /\ excelCache.Delhivery = fileDelhivery
  /\ now = StartTime + reloadInterval - 1
  /\ fileReads = 2

\* C20: a call of loadExcelCaches reads the files exactly when it is the
\* first call or strictly more than reloadInterval has elapsed since the last
\* load; at exactly reloadInterval it reads nothing.
C20_RereadOnlyAfterMoreThanInterval ==
  [][(fileReads' # fileReads) <=>
       \/ excelCache.lastLoaded = 0
       \/ now' - excelCache.lastLoaded > reloadInterval]_vars

\* the set the cache holds for a file
CachedSet(name) == IF name = "DTDC" THEN excelCache.DTDC ELSE excelCache.Delhivery

\* C21: once loadExcelCaches was called, both sets of the cache are sets and
\* not null, and the set of a file that is missing, unreadable or without a
\* sheet, or of any file when the xlsx library is missing, is empty; the call
\* completes in each of these cases.
C21_SetsNeverNullAfterFirstLoad ==
  fileReads > 0 =>
    /\ excelCache.lastLoaded # 0
    /\ \A name \in {"DTDC", "Delhivery"} :
         /\ CachedSet(name) # NullSet
         /\ (~xlsx \/ fileState[name] # "ok") => CachedSet(name) = {}
         /\ (xlsx /\ fileState[name] = "ok") => CachedSet(name) = FirstColumn(name)

\* the files were read with DTDC.xlsx unreadable and Delhivery.xlsx listing
\* a pincode
C21_Witness ==
  /\ fileReads > 0
  /\ xlsx
  /\ fileState = [DTDC |-> "unreadable", Delhivery |-> "ok"]
  /\ fileDTDC # {}
  /\ excelCache.DTDC = {}
  /\ excelCache.Delhivery = fileDelhivery
  /\ fileDelhivery # {}

\* C22: a step that changes either set of the cache replaces both by what
\* the two files hold at that call and sets lastLoaded to the time of the
\* call; no step changes one set and keeps the other from an earlier load.
C22_BothSetsReplacedTogether ==
  [][(excelCache'.DTDC # excelCache.DTDC
        \/ excelCache'.Delhivery # excelCache.Delhivery) =>
       /\ excelCache'.DTDC = readPincodesFromExcel("DTDC")
       /\ excelCache'.Delhivery = readPincodesFromExcel("Delhivery")
       /\ excelCache'.lastLoaded = now'
       /\ fileReads' = fileReads + 2]_vars

\* after a first load both files were rewritten, and a later call loaded
\* the two new contents together
C22_Witness ==
  /\ fileReads = 4
  /\ xlsx
  /\ fileState = [DTDC |-> "ok", Delhivery |-> "ok"]
  /\ excelCache.DTDC = {"682021"}
  /\ excelCache.Delhivery = {"686001"}
  /\ fileDTDC = {"682021"}
  /\ fileDelhivery = {"686001"}
  /\ excelCache.lastLoaded = now
  /\ now > StartTime + reloadInterval

\* ---- properties of extractPincode ---------------------------------------

\* "Pincode: 689672" starts at position p of the text
SampleAt(t, p) ==
  /\ p + 3 <= Len(t)
  /\ SubSeq(t, p, p + 2) = <<Label, Char(":"), Char("s")>>
  /\ t[p + 3].k = "D"
  /\ Len(t[p + 3].d) >= 6
  /\ SubSeq(t[p + 3].d, 1, 6) = <<6, 8, 9, 6, 7, 2>>

ContainsSample(t) == \E p \in 1..Len(t) : SampleAt(t, p)

\* some label before position p starts a labelled match
LabelledBefore(t, p) == \E q \in 1..(p - 1) : LabelledAt(t, q) # <<>>

HasLabelled(t) == LabelledBefore(t, Len(t) + 1)

HasDigit(t) == \E p \in 1..Len(t) : t[p].k = "D"

Called == Len(extractions) > 0

\* C26, as the claim states it: the result of extractPincode on a text that
\* contains "Pincode: 689672" starts with 689672.
C26_SampleAlwaysFirst ==
  (Called /\ ContainsSample(rawText)) =>
     /\ extractions[1] # <<>>
     /\ extractions[1][1] = <<6, 8, 9, 6, 7, 2>>

\* C26: the result of extractPincode on a text that contains
\* "Pincode: 689672" contains 689672, and starts with it when no labelled
\* match starts before the first such occurrence, whatever unlabelled digit
\* runs precede it and whatever follows it.
C26_SampleFirstUnlessLabelledBefore ==
  (Called /\ ContainsSample(rawText)) =>
     /\ Member(extractions[1], <<6, 8, 9, 6, 7, 2>>)
     /\ \A p \in 1..Len(rawText) :
          (SampleAt(rawText, p) /\ ~LabelledBefore(rawText, p)) =>
             extractions[1][1] = <<6, 8, 9, 6, 7, 2>>

\* "1234 Pincode: 689672" followed by a labelled 1234: the unlabelled run in
\* front is not returned and 689672 comes first
C26_Witness ==
  /\ Called
  /\ rawText = <<Digits(<<1, 2, 3, 4>>), Label, Char(":"), Char("s"),
                 Digits(<<6, 8, 9, 6, 7, 2>>), Label, Char("s"),
                 Digits(<<1, 2, 3, 4>>)>>
  /\ extractions[1] = << <<6, 8, 9, 6, 7, 2>>, <<1, 2, 3, 4>> >>

\* C27: on a text with a labelled match every element returned is the
\* capture of a labelled match and every capture is returned; a standalone
\* unlabelled run is returned only on a text without labelled match, where
\* exactly the standalone runs are returned; a text without digit yields <<>>.
C27_LabelledPreferred ==
  Called =>
    LET out == extractions[1]
        t == rawText
    IN /\ HasLabelled(t) =>
            /\ \A k \in 1..Len(out) :
                 \E p \in 1..Len(t) : LabelledAt(t, p) = out[k]
            /\ \A p \in 1..Len(t) :
                 LabelledAt(t, p) # <<>> => Member(out, LabelledAt(t, p))
       /\ ~HasLabelled(t) =>
            /\ \A k \in 1..Len(out) :
                 \E p \in 1..Len(t) : StandaloneAt(t, p) = out[k]
            /\ \A p \in 1..Len(t) :
                 StandaloneAt(t, p) # <<>> => Member(out, StandaloneAt(t, p))
       /\ ~HasDigit(t) => out = <<>>

\* "682021,Pincode 1234": the standalone 682021 is not returned
C27_Witness ==
  /\ Called
  /\ rawText = <<Digits(<<6, 8, 2, 0, 2, 1>>), Char("p"), Label, Char("s"),
                 Digits(<<1, 2, 3, 4>>)>>
  /\ extractions[1] = << <<1, 2, 3, 4>> >>

\* the position of the first match that yields e, in the pattern that applies
FirstAt(t, e) ==
  CHOOSE p \in 1..Len(t) :
    /\ (IF HasLabelled(t) THEN LabelledAt(t, p) ELSE StandaloneAt(t, p)) = e
    /\ \A q \in 1..(p - 1) :
         (IF HasLabelled(t) THEN LabelledAt(t, q) ELSE StandaloneAt(t, q)) # e

PopupReturned == popPc = "returned"

\* C23: a call that read a text of fewer than 150 characters after trimming
\* returns no pincode and never called extractPincode; a call that read a
\* text of 150 characters or more called it once on that text and returns
\* its first element, or no pincode when it returned none.
C23_ShortTextNotExtracted ==
  (PopupReturned /\ handleResult.textRead) =>
     /\ rawText = Trim(popupText)
     /\ TextLength(rawText) < 150 =>
          /\ handleResult.pincode = <<>>
          /\ extractions = <<>>
     /\ TextLength(rawText) >= 150 =>
          /\ extractions = <<extractPincode(rawText)>>
          /\ handleResult.pincodes = extractPincode(rawText)
          /\ handleResult.pincode =
               IF extractPincode(rawText) = <<>>
               THEN <<>>
               ELSE extractPincode(rawText)[1]

\* a text of exactly 150 characters that starts with "Pincode: 689672" was
\* read and 689672 was returned
C23_Witness ==
  /\ PopupReturned
  /\ TextLength(rawText) = 150
  /\ Len(rawText) > 4
  /\ SubSeq(rawText, 1, 4) = Sample
  /\ Member(popupLog, "click")
  /\ handleResult.pincode = <<6, 8, 9, 6, 7, 2>>

\* C24: the foundAddress of a call that read the text tells whether the
\* text holds a letter or a digit, and that of a call whose popup never
\* appeared is false.
C24_FoundAddressIsHasAlphanumeric ==
  PopupReturned =>
    /\ handleResult.textRead =>
         handleResult.foundAddress = HasAddressChar(rawText)
    /\ Member(popupLog, "timeout") => ~handleResult.foundAddress

\* C25: a call that found the popup visible and returned has clicked the
\* preferred close button or pressed Escape; it clicked the button when the
\* button was there, and pressed Escape only when the button was absent or
\* the click failed.
C25_CloseAttemptedOnceVisible ==
  (PopupReturned /\ Member(popupLog, "visible")) =>
     /\ Member(popupLog, "click") \/ Member(popupLog, "escape")
     /\ Member(popupLog, "button") => Member(popupLog, "click")
     /\ Member(popupLog, "escape") =>
          Member(popupLog, "noButton") \/ Member(popupLog, "clickFailed")

\* ---- properties of the extended flow ------------------------------------

\* the steps a call began, leaving the invoice aside
WithoutInvoice(steps) == SelectSeq(steps, LAMBDA a : a # "invoice")

\* C29: a call that clicked the sync trigger and returned something other
\* than the override mismatch began submit, the wait for the modal to
\* detach, the close of the sync popup, fetch and save, in this order.
C29_AllStepsAttemptedInOrder ==
  (/\ syncPc = "returned"
   /\ "sync" \in performed
   /\ result.reason # "carrier-override-mismatch") =>
     WithoutInvoice(attempts) =
       <<"submit", "detach", "closePopup", "fetch", "save">>

PastSettle ==
  \/ syncPc \in {"detach", "fetch", "invoice", "save", "closePopup"}
  \/ syncPc \in {"finally", "returned"} /\ result.synced

C32_EveryDialogAccepted ==
  \A k \in 1..Len(dialogLog) : dialogLog[k].outcome = "accepted"

\* ---- properties of the carrier selection --------------------------------

\* C33: without override, when the selection by name of the carrier the
\* pincode resolves to has failed, the text of the control was scanned before
\* the last-option fallback is reached.
C33_ScanFollowsFailedSelection ==
  (/\ syncPc = "lastOption"
   /\ CARRIER_OVERRIDE = ""
   /\ PincodeCarrier(pincode, DtdcSet, DelhiverySet) # NULL
   /\ ~selected) => scanned

\* C34: a carrier the selection block has set was set by a click on an
\* option of that carrier that succeeded, and is DTDC or Delhivery.
C34_CarrierOnlyAfterSuccessfulClick ==
  /\ (syncPc = "toggle" /\ selectedCarrier # NULL) =>
        optionClicked = selectedCarrier
  /\ selectedCarrier \in {NULL, "DTDC", "Delhivery"}
  /\ syncPc = "returned" => result.carrier \in {NULL, selectedCarrier}

\* C35: a call whose carrier-selection control did not appear within its
\* timeout goes on, past the confirmation toggle and the settle wait, to the
\* extended flow, without an exception and with no carrier selected.
C35_AbsentDropdownStillSyncs ==
  [][syncPc = "noDropdown" =>
       /\ syncPc' = "submit"
       /\ selectedCarrier' = NULL
       /\ result' = result]_vars

\* ---- properties of the wait for the invoice number -----------------------

\* the loop of the wait has been left
PollOver == pollPc \in {"exited", "aborted"}

C37_CandidatesAreCompleteRuns ==
  Called =>
    \A k \in 1..Len(extractions[1]) :
      \E p \in 1..Len(rawText) :
        /\ rawText[p].k = "D"
        /\ rawText[p].d = extractions[1][k]

\* ---- properties of the row counter ---------------------------------------

\* the rows that were clicked and whose iteration is over
Finished ==
  {r \in clicked : r < i \/ pc \in {"summary", "done"}}

\* C38, as stated: a step in which an exception of the row reaches the
\* row-level catch never increments processedRowCount.
C38_AbortedRowsNeverCounted ==
  [][(lastException' = i /\ i' = i + 1) =>
       processedRowCount' = processedRowCount]_vars

\* C38: processedRowCount counts the rows that were clicked and handled up
\* to the increment, each once: a row reaches the increment only after its
\* click and past both filters; rows that were filtered, had no trigger or
\* whose click failed are not counted; only counted rows use up the cap. The
\* row during which the page went away is the one clicked row that may be
\* uncounted (its wait after the click was rejected) or counted and then
\* aborted (its pause after the increment was rejected).
C38_CountsHandledRows ==
  /\ processedRowCount <= Cardinality(Finished)
  /\ processedRowCount >= Cardinality(Finished) - 1
  /\ ~pageClosed => processedRowCount = Cardinality(Finished)
  /\ pc = "rowEnd" =>
       /\ i \in clicked
       /\ ~Skipped(orderId)
       /\ ~NotListed(orderId)
  /\ (~pageClosed /\ pc \in {"row", "click", "handle", "sync", "await", "rowEnd"}) =>
        ~CapReached(Cardinality(Finished))

\* a run of two rows has ended: the first was not listed in ORDERS_TO_PROCESS,
\* the second was clicked, handled and counted
C38_Witness ==
  /\ pc = "done"
  /\ nRows = 2
  /\ evaluated = {1, 2}
  /\ NotListed(RowOrderId(1))
  /\ clicked = {2}
  /\ ~pageClosed
  /\ processedRowCount = 1

\* ---- properties of the persisted summary ---------------------------------

\* the line of the file that is the header of `list`
HeaderAt(list) ==
  CHOOSE p \in 1..Len(summaryFile) :
    summaryFile[p].kind = "header" /\ summaryFile[p].title = list

\* the numbered lines listed beneath the header at line p, below its rule
EntriesBelow(p) ==
  LET last == {q \in (p + 2)..Len(summaryFile) :
                 \A r \in (p + 2)..q : summaryFile[r].kind = "entry"}
  IN [k \in 1..Cardinality(last) |-> summaryFile[p + 1 + k]]

\* the row of the table an order id was read from
RowOf(id) == CHOOSE r \in 1..nRows : RowOrderId(r) = id

\* C39: a summary file that was written has one header per list; beneath each
\* are exactly the records of that list, in the order of their rows, numbered
\* from 1, and the header states their number; whether or not the file could
\* be written, the run that reached the summary ends normally.
C39_SummaryListsProcessedRecords ==
  /\ summaryFile # <<>> =>
       /\ \A list \in Lists :
            Cardinality({p \in 1..Len(summaryFile) :
                           /\ summaryFile[p].kind = "header"
                           /\ summaryFile[p].title = list}) = 1
       /\ Cardinality({p \in 1..Len(summaryFile) :
                         summaryFile[p].kind = "entry"})
            = Len(processed.DTDC) + Len(processed.Delhivery)
                + Len(processed.Unknown)
       /\ \A list \in Lists :
            LET es == EntriesBelow(HeaderAt(list))
            IN /\ summaryFile[HeaderAt(list)].n = Len(es)
               /\ Len(es) = Len(processed[list])
               /\ \A k \in 1..Len(es) :
                    /\ es[k].n = k
                    /\ es[k].orderId = processed[list][k].orderId
                    /\ es[k].pincode = processed[list][k].pincode
               /\ \A j, k \in 1..Len(es) :
                    j < k => RowOf(es[j].orderId) < RowOf(es[k].orderId)
  /\ summaryPrinted => pc = "done"
  /\ summaryFile # <<>> => summaryPrinted

\* a summary was written that lists two records under one header
C39_Witness ==
  /\ pc = "done"
  /\ summaryFile # <<>>
  /\ \E list \in Lists :
       /\ Len(processed[list]) = 2
       /\ Len(EntriesBelow(HeaderAt(list))) = 2

====
